---------------------------- MODULE Spec2Model ----------------------------
(***************************************************************************)
(* A model of backend/server.py: the post-processing of the YOLOv8 and     *)
(* EfficientNet output tensors (compute_iou, apply_nms, parse_yolo_output, *)
(* parse_efficientnet_output) and the two request handlers that drive the  *)
(* shared TFLite interpreters (detect_objects, classify_image).            *)
(*                                                                         *)
(* Numbers.  The program computes in floating point; the model computes in *)
(* exact fixed point, so rounding, overflow and NaN are outside it:        *)
(*   - a normalised box coordinate c in [0,1] is the integer c * One,      *)
(*     One = 2 * 640, so that (cx +- w/2) / 640 is exact for integer       *)
(*     pixel values cx and w;                                              *)
(*   - a detection score s is the integer 100 * s (0.25 is 25);            *)
(*   - an IOU and an IOU threshold are fractions <<num, den>>;             *)
(*   - a classification score s is the integer s * FloatOne,               *)
(*     FloatOne = 4 * 255, so that v / 255 is exact for an 8-bit v.        *)
(***************************************************************************)
EXTENDS Integers, Sequences, FiniteSets

VARIABLES
    args,                     \* the pending call of a decoding function and its arguments
    ret,                      \* what that call produced: Pending, a return or a raise
    picked,                   \* the index order numpy's argsort produced in that call
    coco_labels,              \* server.py:49, set by load_models
    imagenet_labels,          \* server.py:50, set by load_models
    yolo_interpreter,         \* server.py:47, the shared YOLOv8 interpreter
    efficientnet_interpreter, \* server.py:48, the shared EfficientNet interpreter
    requests,                 \* the in-flight HTTP requests (one coroutine each)
    running                   \* the coroutine the event loop is executing, if any

vars == <<args, ret, picked, coco_labels, imagenet_labels,
          yolo_interpreter, efficientnet_interpreter, requests, running>>

Pending == [kind |-> "pending"]
Return(v) == [kind |-> "return", value |-> v]
Raise(e) == [kind |-> "raise", error |-> e]

Max(a, b) == IF a >= b THEN a ELSE b
Min(a, b) == IF a <= b THEN a ELSE b

RECURSIVE SeqMax(_)
SeqMax(s) == IF Len(s) = 1 THEN s[1] ELSE Max(s[1], SeqMax(Tail(s)))

RECURSIVE SeqMin(_)
SeqMin(s) == IF Len(s) = 1 THEN s[1] ELSE Min(s[1], SeqMin(Tail(s)))

RECURSIVE SeqSum(_)
SeqSum(s) == IF s = <<>> THEN 0 ELSE s[1] + SeqSum(Tail(s))

Reverse(s) == [i \in 1..Len(s) |-> s[Len(s) + 1 - i]]

(* All sequences over S of length at most n. *)
SeqsUpTo(S, n) == UNION {[1..k -> S] : k \in 0..n}

(***************************************************************************)
(* compute_iou (server.py:375-389).  A box is <<x1, y1, x2, y2>>.          *)
(***************************************************************************)
InterArea(box1, box2) ==
    LET x1 == Max(box1[1], box2[1])
        y1 == Max(box1[2], box2[2])
        x2 == Min(box1[3], box2[3])
        y2 == Min(box1[4], box2[4])
    IN  Max(0, x2 - x1) * Max(0, y2 - y1)

BoxArea(box) == (box[3] - box[1]) * (box[4] - box[2])

UnionArea(box1, box2) == BoxArea(box1) + BoxArea(box2) - InterArea(box1, box2)

(* The same without the guard on the union area: the quotient as it stands. *)
compute_iou_unguarded(box1, box2) ==
    <<InterArea(box1, box2), UnionArea(box1, box2)>>

compute_iou(box1, box2) ==
    IF UnionArea(box1, box2) > 0
    THEN <<InterArea(box1, box2), UnionArea(box1, box2)>>
    ELSE <<0, 1>>

(* Comparisons of fractions with positive denominators. *)
FracLT(a, b) == a[1] * b[2] < b[1] * a[2]
FracGE(a, b) == ~FracLT(a, b)

(***************************************************************************)
(* apply_nms (server.py:354-372).  A detection is                          *)
(* [label, confidence, bbox]; the model reads only .confidence and .bbox.  *)
(***************************************************************************)

(* sorted(..., key=confidence, reverse=True): Python's sort is stable, and *)
(* reverse=True keeps the input order of equal keys.                       *)
RECURSIVE InsertDesc(_, _)
InsertDesc(d, s) ==
    IF s = <<>> THEN <<d>>
    ELSE IF d.confidence > Head(s).confidence THEN <<d>> \o s
    ELSE <<Head(s)>> \o InsertDesc(d, Tail(s))

RECURSIVE SortedByConfidence(_)
SortedByConfidence(s) ==
    IF s = <<>> THEN <<>>
    ELSE InsertDesc(s[Len(s)], SortedByConfidence(SubSeq(s, 1, Len(s) - 1)))

(* The list as it stands: the sort left out. *)
Unsorted(s) == s

(* The comprehension's condition with suppression kept within one class. *)
SurvivesOtherClass(best, d, iou_threshold) ==
    \/ FracLT(compute_iou(best.bbox, d.bbox), iou_threshold)
    \/ best.label # d.label

(* The comprehension's condition, server.py:369. *)
Survives(best, d, iou_threshold) ==
    FracLT(compute_iou(best.bbox, d.bbox), iou_threshold)

(* The while loop, server.py:363-370. *)
RECURSIVE NmsLoop(_, _, _)
NmsLoop(detections, keep, iou_threshold) ==
    IF detections = <<>> THEN keep
    ELSE LET best == Head(detections)
             rest == Tail(detections)
         IN  NmsLoop(SelectSeq(rest, LAMBDA d : Survives(best, d, iou_threshold)),
                     Append(keep, best), iou_threshold)

SortDetections(s) == SortedByConfidence(s)

apply_nms(detections, iou_threshold) ==
    IF detections = <<>> THEN <<>>
    ELSE NmsLoop(SortDetections(detections), <<>>, iou_threshold)

(***************************************************************************)
(* parse_yolo_output (server.py:311-351).  The tensor is                   *)
(* <<m>>, m the stored (4 + classes) x anchors matrix, a sequence of rows. *)
(***************************************************************************)
InputSize == 640
One == 2 * InputSize
num_classes == 80
TopN == 10

(* output[0].T *)
Transpose(m) ==
    IF m = <<>> THEN <<>>
    ELSE [i \in 1..Len(m[1]) |-> [j \in 1..Len(m) |-> m[j][i]]]

(* Python's s[a:b] for 0 <= a <= b, the end cut at len(s). *)
Slice(s, a, b) == SubSeq(s, a + 1, Min(b, Len(s)))

(* np.argmax: the index (from 0) of the first maximum. *)
ArgMax(s) == CHOOSE i \in 0..(Len(s) - 1) :
                 /\ s[i + 1] = SeqMax(s)
                 /\ \A j \in 0..(i - 1) : s[j + 1] < s[i + 1]

(* Lines 332-335 and 338, in units of 1/One: (cx - w/2) / 640 is 2cx - w. *)
ClampedBox(cx, cy, w, h) ==
    <<Max(0, 2 * cx - w), Max(0, 2 * cy - h),
      Min(One, 2 * cx + w), Min(One, 2 * cy + h)>>

(* Lines 340 and 410: the table's entry, or the synthetic "class_<id>". *)
SyntheticLabel(class_id) ==
    <<"class_0", "class_1", "class_2", "class_3",
      "class_4", "class_5", "class_6", "class_7">>[class_id + 1]

LabelOf(labels, class_id) ==
    IF class_id < Len(labels) THEN labels[class_id + 1] ELSE SyntheticLabel(class_id)

(* Line 330. *)
Passes(max_score, conf_threshold) == max_score >= conf_threshold

(* The body of the for loop, lines 321-346: the detections of one anchor. *)
DecodeAnchor(detection, conf_threshold) ==
    LET class_scores == Slice(detection, 4, 4 + num_classes)
        max_score == SeqMax(class_scores)
        class_id == ArgMax(class_scores)
    IN  IF Passes(max_score, conf_threshold)
        THEN <<[label |-> LabelOf(coco_labels, class_id),
                confidence |-> max_score,
                bbox |-> ClampedBox(detection[1], detection[2],
                                    detection[3], detection[4])]>>
        ELSE <<>>

RECURSIVE DecodeAnchors(_, _)
DecodeAnchors(rows, conf_threshold) ==
    IF rows = <<>> THEN <<>>
    ELSE DecodeAnchor(Head(rows), conf_threshold)
             \o DecodeAnchors(Tail(rows), conf_threshold)

(* The result with the cut to ten left out. *)
Untruncated(detections) == detections

(* detections[:10], line 351. *)
Truncate(detections) == Slice(detections, 0, TopN)

parse_yolo_output(output, orig_width, orig_height, conf_threshold, iou_threshold) ==
    Truncate(apply_nms(DecodeAnchors(Transpose(output[1]), conf_threshold),
                       iou_threshold))

(***************************************************************************)
(* parse_efficientnet_output (server.py:392-416).  The tensor is           *)
(* [dtype, data], data = <<scores>> (shape (1, N)).                        *)
(***************************************************************************)
Quant == 255
FloatOne == 4 * Quant

(* astype(float32) / 255.0, line 398. *)
Dequantize(v) == (v * FloatOne) \div Quant

(* np.exp(-d) for d >= 0, d in units of 1/FloatOne and the result in units *)
(* of 1/FloatOne: exact to a quarter in the argument (794/1020 is          *)
(* e^(-1/4)), rounded down, and 0 once it underflows.                      *)
RECURSIVE ExpQuarters(_)
ExpQuarters(k) ==
    IF k = 0 THEN FloatOne
    ELSE IF k > 40 THEN 0
    ELSE (ExpQuarters(k - 1) * 794) \div FloatOne

ExpNeg(d) == ExpQuarters(d \div (FloatOne \div 4))

(* Lines 402-403. *)
Softmax(scores) ==
    LET exp_scores == [i \in 1..Len(scores) |-> ExpNeg(SeqMax(scores) - scores[i])]
    IN  [i \in 1..Len(scores) |-> (exp_scores[i] * FloatOne) \div SeqSum(exp_scores)]

(* The gate with the upper comparison not strict. *)
LooksLikeLogitsFromOne(scores) ==
    SeqMax(scores) >= FloatOne \/ SeqMin(scores) < 0

(* Line 401. *)
LooksLikeLogits(scores) ==
    SeqMax(scores) > FloatOne \/ SeqMin(scores) < 0

(* Lines 394-403: the score vector the ranking reads (a non-empty one). *)
Scores(output) ==
    LET raw == output.data[1]
        scores == IF output.dtype = "uint8"
                  THEN [i \in 1..Len(raw) |-> Dequantize(raw[i])]
                  ELSE raw
    IN  IF LooksLikeLogits(scores) THEN Softmax(scores) ELSE scores

(* The orders np.argsort may return: the indices (from 0) by ascending     *)
(* score.  The default sort is not stable, so equal scores come in any     *)
(* order.                                                                  *)
Argsorts(scores) ==
    {p \in [1..Len(scores) -> 0..(Len(scores) - 1)] :
        /\ \A i, j \in 1..Len(scores) : i # j => p[i] # p[j]
        /\ \A i \in 1..(Len(scores) - 1) : scores[p[i] + 1] <= scores[p[i + 1] + 1]}

(* Python's s[start:] for any integer start. *)
SliceFrom(s, start) ==
    LET n == Len(s)
        from == IF start < 0 THEN Max(0, n + start) ELSE Min(n, start)
    IN  SubSeq(s, from + 1, n)

(* order[-top_k:], line 406. *)
Last(order, top_k) == SliceFrom(order, -top_k)

(* Lines 406-416, for the order argsort returned. *)
Classify(scores, order, top_k) ==
    LET top_indices == Reverse(Last(order, top_k))
    IN  [i \in 1..Len(top_indices) |->
            [label |-> LabelOf(imagenet_labels, top_indices[i]),
             confidence |-> scores[top_indices[i] + 1]]]

(* The outcomes of the call: np.max of an empty vector raises ValueError   *)
(* at line 401.                                                            *)
parse_efficientnet_output(output, top_k, order) ==
    IF output.data[1] = <<>>
    THEN Raise("ValueError")
    ELSE Return(Classify(Scores(output), order, top_k))

(* The orders argsort may return in that call (one, arbitrary, when the    *)
(* call raises before it sorts).                                           *)
Orders(output) ==
    IF output.data[1] = <<>> THEN {<<>>} ELSE Argsorts(Scores(output))

(***************************************************************************)
(* The request handlers, detect_objects (server.py:204-251) and            *)
(* classify_image (server.py:254-308).  Both are coroutines of one event   *)
(* loop: a coroutine runs until it awaits, and only then may another run.  *)
(***************************************************************************)
NumRequests == 2
ReqIds == 1..NumRequests

Endpoints == {"detect", "classify"}
Images == {"cat.jpg", "dog.jpg", "corrupt"}

NoInput == [req |-> 0, image |-> "None"]
NoOutput == [of |-> NoInput, tensor |-> "None"]
NoResponse == [status_code |-> 0, detail |-> "", results |-> <<>>]

(* What the engine may leave in the output tensor: it is a black box. *)
EngineOutputs(endpoint) ==
    IF endpoint = "detect" THEN {"two_overlapping", "below_threshold"}
    ELSE {"probabilities", "logits", "empty"}

EngineTensor(name) ==
    CASE name = "two_overlapping" ->
            <<Transpose(<<<<320, 320, 320, 320, 90, 10>>,
                          <<320, 320, 320, 300, 10, 60>>>>)>>
      [] name = "below_threshold" ->
            <<Transpose(<<<<320, 320, 320, 320, 20, 10>>>>)>>
      [] name = "probabilities" ->
            [dtype |-> "uint8", data |-> <<<<51, 204, 0>>>>]
      [] name = "logits" ->
            [dtype |-> "float32", data |-> <<<<2 * FloatOne, 0, -FloatOne>>>>]
      [] name = "empty" ->
            [dtype |-> "float32", data |-> <<<<>>>>]

Interp(endpoint) ==
    IF endpoint = "detect" THEN yolo_interpreter ELSE efficientnet_interpreter

SetInterp(endpoint, v) ==
    IF endpoint = "detect"
    THEN yolo_interpreter' = v /\ UNCHANGED efficientnet_interpreter
    ELSE efficientnet_interpreter' = v /\ UNCHANGED yolo_interpreter

(* The positions at which the coroutine gives the event loop back, with    *)
(* one more between set_tensor and invoke.                                 *)
AwaitPointsAroundInvoke == {"await_read", "invoke"}

(* The positions at which the coroutine gives the event loop back: the one *)
(* await of each handler, file.read() (lines 217 and 267).                 *)
AwaitPoints == {"await_read"}

CanRun(r) == running \subseteq {r}

(* The request moves to position pc; the loop is free again if it awaits   *)
(* there or has ended.                                                     *)
Goto(r, pc, fields) ==
    /\ requests' = [requests EXCEPT ![r] = [fields EXCEPT !.pc = pc]]
    /\ running' = IF pc \in AwaitPoints \cup {"done"} THEN {} ELSE {r}

(* raise HTTPException(status_code, detail), lines 211, 251, 261, 308. *)
Fail(r, status_code, detail, cause) ==
    Goto(r, "done",
         [requests[r] EXCEPT !.response = [status_code |-> status_code,
                                           detail |-> detail,
                                           results |-> <<>>],
                             !.failed = cause])

(* return DetectionResponse(success=True, ...), lines 243 and 300. *)
Succeed(r, results) ==
    Goto(r, "done",
         [requests[r] EXCEPT !.response = [status_code |-> 200,
                                           detail |-> "",
                                           results |-> results]])

Pure == UNCHANGED <<args, ret, picked>>
Labels == UNCHANGED <<coco_labels, imagenet_labels>>
Interpreters == UNCHANGED <<yolo_interpreter, efficientnet_interpreter>>

(* Lines 210-217 and 260-267: the 503 when the model is not loaded, or on  *)
(* to the await of the upload.                                             *)
Begin(r) ==
    /\ requests[r].pc = "new"
    /\ CanRun(r)
    /\ IF ~Interp(requests[r].endpoint).loaded
       THEN Fail(r, 503, "model not loaded", "unavailable")
       ELSE Goto(r, "await_read", requests[r])
    /\ Pure /\ Labels /\ Interpreters

(* Lines 218-231 and 268-287: decode and resize the image; PIL raises on   *)
(* bytes it cannot identify, and the except clause turns that into a 500.  *)
ReadImage(r) ==
    /\ requests[r].pc = "await_read"
    /\ CanRun(r)
    /\ IF requests[r].image = "corrupt"
       THEN Fail(r, 500, "cannot identify image file", "bad_image")
       ELSE Goto(r, "set_tensor", requests[r])
    /\ Pure /\ Labels /\ Interpreters

(* Lines 233 and 290. *)
SetTensor(r) ==
    /\ requests[r].pc = "set_tensor"
    /\ CanRun(r)
    /\ SetInterp(requests[r].endpoint,
                 [Interp(requests[r].endpoint) EXCEPT
                     !.input = [req |-> r, image |-> requests[r].image]])
    /\ Goto(r, "invoke", requests[r])
    /\ Pure /\ Labels

(* Lines 234 and 291: the engine computes the output from the input that   *)
(* is bound, or raises.                                                    *)
Invoke(r) ==
    /\ requests[r].pc = "invoke"
    /\ CanRun(r)
    /\ \/ /\ Fail(r, 500, "RuntimeError", "engine")
          /\ Interpreters
       \/ \E t \in EngineOutputs(requests[r].endpoint) :
             /\ SetInterp(requests[r].endpoint,
                          [Interp(requests[r].endpoint) EXCEPT
                              !.output = [of |-> Interp(requests[r].endpoint).input,
                                          tensor |-> t]])
             /\ Goto(r, "get_tensor", requests[r])
    /\ Pure /\ Labels

(* Lines 236 and 293. *)
GetTensor(r) ==
    /\ requests[r].pc = "get_tensor"
    /\ CanRun(r)
    /\ Goto(r, "parse",
            [requests[r] EXCEPT !.output = Interp(requests[r].endpoint).output])
    /\ Pure /\ Labels /\ Interpreters

(* Lines 239-247. *)
ParseDetections(r) ==
    /\ requests[r].pc = "parse"
    /\ requests[r].endpoint = "detect"
    /\ CanRun(r)
    /\ Succeed(r, parse_yolo_output(EngineTensor(requests[r].output.tensor),
                                    640, 480, 25, <<45, 100>>))
    /\ Pure /\ Labels /\ Interpreters

(* Lines 296-308. *)
ParseClassifications(r) ==
    /\ requests[r].pc = "parse"
    /\ requests[r].endpoint = "classify"
    /\ CanRun(r)
    /\ \E order \in Orders(EngineTensor(requests[r].output.tensor)) :
          LET res == parse_efficientnet_output(
                         EngineTensor(requests[r].output.tensor), 3, order)
          IN  IF res.kind = "raise"
              THEN Fail(r, 500, res.error, "decode")
              ELSE Succeed(r, res.value)
    /\ Pure /\ Labels /\ Interpreters

(* After startup: each model loaded or not (load_models, lines 94-124). *)
Init ==
    /\ args = [fn |-> "none"]
    /\ ret = Pending
    /\ picked = <<>>
    /\ coco_labels = <<"person", "bicycle">>
    /\ imagenet_labels = <<"tench", "goldfish", "shark">>
    /\ yolo_interpreter \in
           [loaded : BOOLEAN, input : {NoInput}, output : {NoOutput}]
    /\ efficientnet_interpreter \in
           [loaded : BOOLEAN, input : {NoInput}, output : {NoOutput}]
    /\ requests \in [ReqIds -> [endpoint : Endpoints, image : Images,
                                pc : {"new"}, output : {NoOutput},
                                response : {NoResponse}, failed : {"no"}]]
    /\ running = {}

Next ==
    \E r \in ReqIds :
        \/ Begin(r)
        \/ ReadImage(r)
        \/ SetTensor(r)
        \/ Invoke(r)
        \/ GetTensor(r)
        \/ ParseDetections(r)
        \/ ParseClassifications(r)

Spec == Init /\ [][Next]_vars

(***************************************************************************)
(* The decoding functions on their own: a call with arguments drawn from   *)
(* bounded sets, and the step that makes it.  The server is idle.          *)
(***************************************************************************)
Idle ==
    /\ yolo_interpreter = [loaded |-> FALSE, input |-> NoInput, output |-> NoOutput]
    /\ efficientnet_interpreter =
           [loaded |-> FALSE, input |-> NoInput, output |-> NoOutput]
    /\ requests = <<>>
    /\ running = {}

Server == UNCHANGED <<yolo_interpreter, efficientnet_interpreter, requests, running>>

(* ---- compute_iou ---- *)
MaxCoord == 3
GridBoxes == {<<x1, y1, x2, y2>> : x1 \in 0..MaxCoord, y1 \in 0..MaxCoord,
                                   x2 \in 0..MaxCoord, y2 \in 0..MaxCoord}

InitIou ==
    /\ args \in [fn : {"compute_iou"}, box1 : GridBoxes, box2 : GridBoxes]
    /\ ret = Pending
    /\ picked = <<>>
    /\ coco_labels = <<>>
    /\ imagenet_labels = <<>>
    /\ Idle

CallComputeIou ==
    /\ args.fn = "compute_iou"
    /\ ret = Pending
    /\ ret' = Return(compute_iou(args.box1, args.box2))
    /\ UNCHANGED <<args, picked>> /\ Labels /\ Server

SpecIou == InitIou /\ [][CallComputeIou]_vars

(* ---- apply_nms ---- *)
MaxDetections == 3
NmsBoxes == {<<0, 0, 4, 4>>, <<0, 0, 4, 3>>, <<2, 0, 6, 4>>, <<4, 0, 2, 4>>}
NmsThresholds == {<<0, 1>>, <<3, 10>>, <<45, 100>>, <<1, 1>>}
NmsDetections == [label : {"person", "car"}, confidence : {50, 90}, bbox : NmsBoxes]

InitNms ==
    /\ args \in [fn : {"apply_nms"},
                 detections : SeqsUpTo(NmsDetections, MaxDetections),
                 iou_threshold : NmsThresholds]
    /\ ret = Pending
    /\ picked = <<>>
    /\ coco_labels = <<>>
    /\ imagenet_labels = <<>>
    /\ Idle

CallApplyNms ==
    /\ args.fn = "apply_nms"
    /\ ret = Pending
    /\ ret' = Return(apply_nms(args.detections, args.iou_threshold))
    /\ UNCHANGED <<args, picked>> /\ Labels /\ Server

SpecNms == InitNms /\ [][CallApplyNms]_vars

(* ---- parse_yolo_output ---- *)
MaxAnchors == 2
MaxTiles == 11

(* Anchors <<cx, cy, w, h, score_0, score_1>> in pixels and hundredths:    *)
(* inside the input area, across its border, outside it, and of negative   *)
(* width.                                                                  *)
Geometries == {<<320, 320, 640, 640>>, <<320, 320, 320, 300>>, <<0, 0, 100, 100>>,
               <<1000, 320, 10, 10>>, <<-50, 320, 20, 20>>, <<320, 320, -100, 100>>}
ScorePairs == {<<90, 10>>, <<10, 60>>, <<20, 20>>, <<25, 25>>}
AnchorRows == {g \o sc : g \in Geometries, sc \in ScorePairs}

(* A row of disjoint boxes, each scored for one class or the other. *)
TileRows == UNION {{[i \in 1..n |-> <<50 * i, 320, 40, 40>> \o sc[i]] :
                        sc \in [1..n -> {<<30, 0>>, <<0, 90>>}]} : n \in 0..MaxTiles}

YoloTensors == {<<Transpose(rows)>> : rows \in SeqsUpTo(AnchorRows, MaxAnchors) \cup TileRows}

InitYolo ==
    /\ args \in [fn : {"parse_yolo_output"},
                 output : YoloTensors,
                 orig_width : {640}, orig_height : {480},
                 conf_threshold : {25, 50},
                 iou_threshold : {<<45, 100>>, <<0, 1>>}]
    /\ ret = Pending
    /\ picked = <<>>
    /\ coco_labels \in {<<>>, <<"person">>}
    /\ imagenet_labels = <<>>
    /\ Idle

CallParseYolo ==
    /\ args.fn = "parse_yolo_output"
    /\ ret = Pending
    /\ ret' = Return(parse_yolo_output(args.output, args.orig_width, args.orig_height,
                                       args.conf_threshold, args.iou_threshold))
    /\ UNCHANGED <<args, picked>> /\ Labels /\ Server

SpecYolo == InitYolo /\ [][CallParseYolo]_vars

(* ---- parse_efficientnet_output ---- *)
MaxScores == 3
MaxTopK == 4
ByteScores == {0, 51, 255}
FloatScores == {-(FloatOne \div 4), 0, FloatOne \div 4, FloatOne \div 2,
                FloatOne, 2 * FloatOne}
ScoreTensors ==
    {[dtype |-> "uint8", data |-> <<v>>] : v \in SeqsUpTo(ByteScores, MaxScores)}
    \cup {[dtype |-> "float32", data |-> <<v>>] : v \in SeqsUpTo(FloatScores, MaxScores)}

InitEff ==
    /\ args \in [fn : {"parse_efficientnet_output"},
                 output : ScoreTensors,
                 top_k : (-1)..MaxTopK]
    /\ ret = Pending
    /\ picked = <<>>
    /\ coco_labels = <<>>
    /\ imagenet_labels \in {<<>>, <<"tench", "goldfish">>}
    /\ Idle

CallParseEfficientnet ==
    /\ args.fn = "parse_efficientnet_output"
    /\ ret = Pending
    /\ \E order \in Orders(args.output) :
          /\ picked' = order
          /\ ret' = parse_efficientnet_output(args.output, args.top_k, order)
    /\ UNCHANGED args /\ Labels /\ Server

SpecEff == InitEff /\ [][CallParseEfficientnet]_vars

(***************************************************************************)
(* The properties.                                                         *)
(***************************************************************************)
Returned == ret.kind = "return"

NonIncreasing(s) ==
    \A i \in 1..(Len(s) - 1) : s[i].confidence >= s[i + 1].confidence

(* C1: after apply_nms(detections, t) returns, compute_iou of the boxes of *)
(* any two distinct kept detections, in either order, is below t.          *)
C1_KeptPairsBelowThreshold ==
    (args.fn = "apply_nms" /\ Returned) =>
        \A i, j \in 1..Len(ret.value) :
            i # j => FracLT(compute_iou(ret.value[i].bbox, ret.value[j].bbox),
                            args.iou_threshold)

(* C1's case: a list with a pair at or above the threshold, of different   *)
(* labels, from which something was suppressed and several were kept.      *)
C1_Witness ==
    /\ args.fn = "apply_nms" /\ Returned
    /\ Len(ret.value) >= 2
    /\ \E i, j \in 1..Len(args.detections) :
          /\ i # j
          /\ args.detections[i].label # args.detections[j].label
          /\ FracGE(compute_iou(args.detections[i].bbox, args.detections[j].bbox),
                    args.iou_threshold)

InUnit(box) ==
    /\ 0 <= box[1] /\ box[1] <= box[3] /\ box[3] <= One
    /\ 0 <= box[2] /\ box[2] <= box[4] /\ box[4] <= One

(* C2: every box parse_yolo_output returns has 0 <= x1 <= x2 <= 1 and      *)
(* 0 <= y1 <= y2 <= 1, whatever the anchor's centre and size.              *)
C2_BoxesInUnitSquare ==
    (args.fn = "parse_yolo_output" /\ Returned) =>
        \A i \in 1..Len(ret.value) : InUnit(ret.value[i].bbox)

(* C3: parse_yolo_output returns at most 10 detections, each of confidence *)
(* at least conf_threshold, in non-increasing order of confidence.         *)
C3_AtMostTenThresholdedOrdered ==
    (args.fn = "parse_yolo_output" /\ Returned) =>
        /\ Len(ret.value) <= 10
        /\ \A i \in 1..Len(ret.value) : ret.value[i].confidence >= args.conf_threshold
        /\ NonIncreasing(ret.value)

(* C3's case: more than ten anchors clear the threshold and none           *)
(* suppresses another, of two different confidences; ten come back.        *)
C3_Witness ==
    /\ args.fn = "parse_yolo_output" /\ Returned
    /\ Len(apply_nms(DecodeAnchors(Transpose(args.output[1]), args.conf_threshold),
                     args.iou_threshold)) > 10
    /\ Len(ret.value) = 10
    /\ ret.value[1].confidence > ret.value[10].confidence

(* C4: parse_efficientnet_output returns at most top_k classifications,    *)
(* for every top_k (0 and negative included), in non-increasing order of   *)
(* confidence.                                                             *)
(* A length is never negative, so for a negative top_k the bound is read   *)
(* as 0: the call returns nothing.                                         *)
C4_AtMostTopKOrdered ==
    (args.fn = "parse_efficientnet_output" /\ Returned) =>
        /\ Len(ret.value) <= Max(args.top_k, 0)
        /\ NonIncreasing(ret.value)

(* C5: an empty candidate set is a success with no results: in particular  *)
(* parse_efficientnet_output of an empty score vector returns the empty    *)
(* list and does not raise.                                                *)
C5_EmptyVectorReturnsEmpty ==
    (args.fn = "parse_efficientnet_output" /\ ret # Pending
        /\ args.output.data[1] = <<>>) => ret = Return(<<>>)

(* C6 as stated: compute_iou returns a value in [0,1] for every pair of    *)
(* boxes, 0 when the union area is <= 0, never divides by zero, and 1 for  *)
(* a box of positive area (x2 - x1) * (y2 - y1) against itself.            *)
C6_IouAsStated ==
    (args.fn = "compute_iou" /\ Returned) =>
        /\ ret.value[2] > 0
        /\ 0 <= ret.value[1] /\ ret.value[1] <= ret.value[2]
        /\ UnionArea(args.box1, args.box2) <= 0 => ret.value[1] = 0
        /\ (args.box1 = args.box2 /\ BoxArea(args.box1) > 0)
              => ret.value[1] = ret.value[2]

WellFormed(box) == box[1] < box[3] /\ box[2] < box[4]

(* C6, amended: the same, with 1 for a box with x1 < x2 and y1 < y2        *)
(* against itself.                                                         *)
C6_IouInUnitInterval ==
    (args.fn = "compute_iou" /\ Returned) =>
        /\ ret.value[2] > 0
        /\ 0 <= ret.value[1] /\ ret.value[1] <= ret.value[2]
        /\ UnionArea(args.box1, args.box2) <= 0 => ret.value[1] = 0
        /\ (args.box1 = args.box2 /\ WellFormed(args.box1))
              => ret.value[1] = ret.value[2]

(* C6's case: an inverted box against a well-formed one of the same size,  *)
(* the union area 0, and the call returned 0.                              *)
C6_Witness ==
    /\ args.fn = "compute_iou" /\ Returned
    /\ WellFormed(args.box1)
    /\ args.box2[3] < args.box2[1]
    /\ UnionArea(args.box1, args.box2) = 0
    /\ ret.value = <<0, 1>>

(* The score vector of the call after the division by 255 of an 8-bit one. *)
InputScores ==
    LET raw == args.output.data[1]
    IN  [i \in 1..Len(raw) |->
            IF args.output.dtype = "uint8" THEN (raw[i] * FloatOne) \div 255 ELSE raw[i]]

(* The indices (from 0) the call ranked, from the order argsort returned. *)
Ranked == Reverse(SliceFrom(picked, -args.top_k))

(* C9: the confidences returned are the softmax of the scores exactly when *)
(* some score (after the division by 255 of an 8-bit one) is above 1.0 or  *)
(* below 0, and the scores themselves otherwise; those of an 8-bit vector  *)
(* are always the scores themselves.                                       *)
C9_SoftmaxOnlyOutsideUnitRange ==
    (args.fn = "parse_efficientnet_output" /\ Returned) =>
        LET s == InputScores
            outside == \E i \in 1..Len(s) : s[i] > FloatOne \/ s[i] < 0
        IN  /\ Len(ret.value) = Len(Ranked)
            /\ \A j \in 1..Len(ret.value) :
                  ret.value[j].confidence =
                      IF outside THEN Softmax(s)[Ranked[j] + 1] ELSE s[Ranked[j] + 1]
            /\ args.output.dtype = "uint8" => ~outside

(* C9's case: an 8-bit vector holding 255 and a smaller value, so that its *)
(* largest score is exactly 1.0, came back unchanged.                      *)
C9_Witness ==
    /\ args.fn = "parse_efficientnet_output" /\ Returned
    /\ args.output.dtype = "uint8"
    /\ \E i, j \in 1..Len(args.output.data[1]) :
          args.output.data[1][i] = 255 /\ args.output.data[1][j] < 255
    /\ Len(ret.value) >= 2
    /\ ret.value[1].confidence = FloatOne
    /\ ret.value[2].confidence < FloatOne

(* The input list with each detection carrying its position. *)
Tagged ==
    [i \in 1..Len(args.detections) |->
        [id |-> i,
         label |-> args.detections[i].label,
         confidence |-> args.detections[i].confidence,
         bbox |-> args.detections[i].bbox]]

(* a comes before b in the order of selection: by confidence, and by       *)
(* position in the input among equals.                                     *)
Before(a, b) ==
    \/ a.confidence > b.confidence
    \/ a.confidence = b.confidence /\ a.id < b.id

(* C10: apply_nms is greedy and class-agnostic: the first input detection  *)
(* of the highest confidence is kept, and every input detection that is    *)
(* not kept has compute_iou >= iou_threshold with a kept detection that    *)
(* comes before it (so of at least its confidence), whatever the labels.   *)
C10_GreedyClassAgnostic ==
    (args.fn = "apply_nms" /\ Returned) =>
        LET kept == apply_nms(Tagged, args.iou_threshold)
            keptIds == {kept[k].id : k \in 1..Len(kept)}
        IN  /\ ret.value = [k \in 1..Len(kept) |-> args.detections[kept[k].id]]
            /\ Tagged # <<>> =>
                  /\ Len(kept) >= 1
                  /\ \A i \in 1..Len(Tagged) :
                        i # kept[1].id => Before(kept[1], Tagged[i])
            /\ \A i \in 1..Len(Tagged) :
                  i \notin keptIds =>
                      \E k \in 1..Len(kept) :
                          /\ Before(kept[k], Tagged[i])
                          /\ FracGE(compute_iou(kept[k].bbox, Tagged[i].bbox),
                                    args.iou_threshold)

(* C10's case: the highest confidence comes last in the input and is the   *)
(* only one kept, the others, of another label, suppressed by it.          *)
C10_Witness ==
    /\ args.fn = "apply_nms" /\ Returned
    /\ Len(args.detections) >= 2
    /\ \A i \in 1..(Len(args.detections) - 1) :
          /\ args.detections[i].confidence
                 < args.detections[Len(args.detections)].confidence
          /\ args.detections[i].label # args.detections[Len(args.detections)].label
    /\ args.iou_threshold = <<45, 100>>
    /\ ret.value = <<args.detections[Len(args.detections)]>>

(* The tensor binding of request r: what it set as input. *)
Binding(r) == [req |-> r, image |-> requests[r].image]

(* C7: requests on one interpreter are serialized: between a request's     *)
(* set_tensor and its get_tensor the interpreter holds that request's      *)
(* input and the output computed from it, and what the request reads (and  *)
(* answers from) is the output computed from its own input.                *)
C7_InterpreterSerialized ==
    \A r \in DOMAIN requests :
        LET q == requests[r]
            interpreter == Interp(q.endpoint)
        IN  /\ q.pc = "invoke" => interpreter.input = Binding(r)
            /\ q.pc = "get_tensor" =>
                  /\ interpreter.input = Binding(r)
                  /\ interpreter.output.of = Binding(r)
            /\ (q.pc = "parse" \/ (q.pc = "done" /\ q.response.status_code = 200))
                  => q.output.of = Binding(r)
            /\ \A r2 \in DOMAIN requests :
                  (r2 # r /\ requests[r2].endpoint = q.endpoint
                      /\ q.pc \in {"invoke", "get_tensor"})
                  => requests[r2].pc \notin {"invoke", "get_tensor"}

(* C7's case: two requests with different images in flight on the same     *)
(* interpreter, one answered from its own output after the other had bound *)
(* its input and is about to read.                                         *)
C7_Witness ==
    \E r1, r2 \in DOMAIN requests :
        /\ r1 # r2
        /\ requests[r1].endpoint = requests[r2].endpoint
        /\ requests[r1].image # requests[r2].image
        /\ requests[r1].pc = "done" /\ requests[r1].response.status_code = 200
        /\ requests[r2].pc = "get_tensor"
        /\ Interp(requests[r2].endpoint).output.of = Binding(r2)

(* C8: a request whose image cannot be decoded ends in an error, never in  *)
(* a success, and in a condition (status) other than that of a request on  *)
(* which the engine or the decoding of its output failed.                  *)
C8_BadInputDistinct ==
    \A r1, r2 \in DOMAIN requests :
        (requests[r1].pc = "done" /\ requests[r1].failed = "bad_image") =>
            /\ requests[r1].response.status_code # 200
            /\ (requests[r2].pc = "done" /\ requests[r2].failed \in {"engine", "decode"})
                  => requests[r1].response.status_code
                         # requests[r2].response.status_code

=============================================================================
